---- MODULE Spec2Model ----
(***************************************************************************)
(* Model of matplotlib 1.0.0 projections/polar.py: the PolarAxes           *)
(* interactive pan/zoom gesture (start_pan / drag_pan / end_pan), the      *)
(* radial limits it reads and writes, and the inverse polar projection     *)
(* through which pointer positions are read.                               *)
(*                                                                         *)
(* Specifications                                                          *)
(*   Spec            the gesture on an axes with given radial limits       *)
(*   SpecProjection  PolarTransform, InvertedPolarTransform, transform_path*)
(*                   and PolarAffine.get_matrix applied to given inputs    *)
(*   SpecLimitCalls  set_rmax, set_rmin, set_xlim, set_xscale and          *)
(*                   get_matrix interleaved with one gesture               *)
(*   SpecZoom        zoom gestures whose pointer leaves the circle         *)
(*   SpecRadialGrid  cla, set_yscale, set_rscale and set_rgrids            *)
(*   SpecThetaGrid   cla and set_thetagrids                                *)
(*   SpecCm          cm.py: register_cmap, get_cmap and the checkers of a  *)
(*                   ScalarMappable                                        *)
(*                                                                         *)
(* Number representation                                                   *)
(*   radii           exact rationals <<n, d>>, d > 0, in lowest terms      *)
(*   angles (radian) integer multiples of 2*pi/GridSteps (2.5 degrees)     *)
(*   label angles    integer half-degrees (the translation tx of the       *)
(*                   label-position Affine2D, which is in degrees)         *)
(*   label padding   integer hundredths (the translation ty)               *)
(*   pointer         polar position about the centre of the axes circle:   *)
(*                   phi on the angle grid, k in units of 1/DistDen of the *)
(*                   circle radius (k > DistDen is outside the circle)     *)
(***************************************************************************)
EXTENDS Integers, Sequences, FiniteSets, TLC

VARIABLES viewLim, transProjectionAffine, r_label1_position,
          r_label2_position, pan_start, gesture, ngestures, last,
          _rpad, xaxis, yaxis, theta_label1_position, theta_label2_position,
          cmap_d, update_dict, notified

\* the grid state of the axes: _rpad, the two axis objects and the positions
\* of the angular labels
grid_vars == <<_rpad, xaxis, yaxis, theta_label1_position,
               theta_label2_position>>

\* the colormap registry of cm.py, the flags of one ScalarMappable, and for
\* each checker which of changed() and set_array() were called since its last
\* add_checker or check_update
cm_vars == <<cmap_d, update_dict, notified>>

vars == <<viewLim, transProjectionAffine, r_label1_position,
          r_label2_position, pan_start, gesture, ngestures, last,
          grid_vars, cm_vars>>

----------------------------------------------------------------------------
(* Bounds of the model *)

\* largest numerator and denominator of a radial limit kept in the state space
MaxNum == 60
MaxDen == 9

\* number of start_pan calls in a behaviour
MaxGestures == 2

\* pointer positions: angles on the 2.5-degree grid, distances in 1/DistDen
Pointers == {[phi |-> 9, k |-> 1], [phi |-> 9, k |-> 2], [phi |-> 9, k |-> 4],
             [phi |-> 9, k |-> 6], [phi |-> 8, k |-> 4], [phi |-> 5, k |-> 4],
             [phi |-> 0, k |-> 4], [phi |-> 143, k |-> 4]}
Buttons       == {1, 2, 3}
\* drag_pan ignores its button and key arguments
DragButtons   == {1}
Keys          == {"none"}
\* radial limits (y0, y1) configured before the gestures: the default of a
\* new axes, rmax = 10, and rmin = 3 with rmax = 4
InitLimits    == {[y0 |-> <<0, 1>>, y1 |-> <<1, 1>>],
                  [y0 |-> <<0, 1>>, y1 |-> <<10, 1>>],
                  [y0 |-> <<3, 1>>, y1 |-> <<4, 1>>]}

----------------------------------------------------------------------------
(* Program constants *)

GridSteps      == 144     \* grid angles per full turn (2*pi)
HalfTurn       == 72      \* pi on the grid
GridHalfDeg    == 5       \* one grid step in half-degrees: (1/pi)*180*2/72
EpsilonHalfDeg == 8       \* epsilon = pi/45 = 4 degrees
DistDen        == 4       \* pointer distance unit: 1/4 of the circle radius
RPadInit       == 5       \* self._rpad = 0.05
RLabelAngleInit == 45     \* translate(22.5, ...)

\* the attribute _pan_start does not exist
NoPan == [exists |-> FALSE]

----------------------------------------------------------------------------
(* Exact rational arithmetic standing for the float arithmetic of the code *)

Abs(n) == IF n < 0 THEN -n ELSE n

RECURSIVE GCD(_, _)
GCD(a, b) == IF b = 0 THEN a ELSE GCD(b, a % b)

RNorm(n, d) ==
  LET s == IF d < 0 THEN -1 ELSE 1
      g == GCD(Abs(n), Abs(d))
  IN  <<(s * n) \div g, (s * d) \div g>>

RAdd(p, q) == RNorm(p[1] * q[2] + q[1] * p[2], p[2] * q[2])
RSub(p, q) == RNorm(p[1] * q[2] - q[1] * p[2], p[2] * q[2])
RMul(p, q) == RNorm(p[1] * q[1], p[2] * q[2])
RDiv(p, q) == RNorm(p[1] * q[2], p[2] * q[1])
RLess(p, q) == p[1] * q[2] < q[1] * p[2]
RMin(p, q) == IF RLess(q, p) THEN q ELSE p
RMax(p, q) == IF RLess(p, q) THEN q ELSE p

\* 1000 * cos(i * 2.5 degrees), i = 0 .. 72
CosTab == <<1000, 999, 996, 991, 985, 976, 966, 954, 940, 924, 906, 887,
            866, 843, 819, 793, 766, 737, 707, 676, 643, 609, 574, 537,
            500, 462, 423, 383, 342, 301, 259, 216, 174, 131, 87, 44, 0,
            -44, -87, -131, -174, -216, -259, -301, -342, -383, -423, -462,
            -500, -537, -574, -609, -643, -676, -707, -737, -766, -793,
            -819, -843, -866, -887, -906, -924, -940, -954, -966, -976,
            -985, -991, -996, -999, -1000>>

\* np.cos on the grid, in thousandths
Cos(phi) == IF phi <= HalfTurn THEN CosTab[phi + 1]
            ELSE CosTab[(GridSteps - phi) + 1]

\* first grid angle i in [0, pi] with 1000 * cos(i) * d <= n (cos decreases)
RECURSIVE ArcScan(_, _, _)
ArcScan(n, d, i) ==
  IF i = HalfTurn \/ CosTab[i + 1] * d <= n THEN i ELSE ArcScan(n, d, i + 1)

\* np.arccos of (n / d) / 1000, |n / d| <= 1000, rounded to the nearest grid
\* angle in [0, pi]
ArcCos(n, d) ==
  LET hi == ArcScan(n, d, 0)
      lo == IF hi = 0 THEN 0 ELSE hi - 1
  IN  IF Abs(CosTab[lo + 1] * d - n) <= Abs(CosTab[hi + 1] * d - n)
      THEN lo ELSE hi

----------------------------------------------------------------------------
(* Bbox accessors of viewLim and the radial limit accessors *)

ymin(vl) == RMin(vl.y0, vl.y1)
ymax(vl) == RMax(vl.y0, vl.y1)

get_rmax == ymax(viewLim)
get_rmin == ymin(viewLim)

\* PolarAffine.get_matrix with the linear (identity) transScale: the matrix
\* is scale(0.5 / yscale).translate(0.5, 0.5); it is represented by yscale
PolarAffine_yscale(vl) == RSub(ymax(vl), ymin(vl))

\* InvertedPolarTransform.transform applied after the inverse of a PolarAffine
\* with the given yscale; rmin is the live viewLim.ymin of the bound axes
InvertedPolarTransform(pt, yscale, rmin) ==
  LET dist  == RMul(<<pt.k, DistDen>>, yscale)    \* sqrt(x*x + y*y)
      r     == RAdd(dist, rmin)                   \* r += viewLim.ymin
      q     == RDiv(dist, r)
      theta == ArcCos(q[1] * Cos(pt.phi), q[2])   \* arccos(x / r)
  IN  [t |-> IF pt.phi > HalfTurn THEN GridSteps - theta ELSE theta,
       r |-> r]

----------------------------------------------------------------------------
(* PolarAffine                                                             *)
(*                                                                         *)
(* A box is [x0, x1, y0, y1]; angular bounds are in thousandths of a       *)
(* radian.  The matrix scale(a).translate(tx, ty) is [a, tx, ty].          *)

TwoPi == 6283            \* np.pi * 2.0

Zero == <<0, 1>>

\* log10 on the powers of ten
Log10(v) ==
  CASE v = <<1, 10>>  -> <<-1, 1>>
    [] v = <<1, 1>>   -> Zero
    [] v = <<10, 1>>  -> <<1, 1>>
    [] v = <<100, 1>> -> <<2, 1>>

\* the radial part of the axis-scale transform
scale_transform_y(scale, v) == IF scale = "log" THEN Log10(v) ELSE v

\* limits.transformed(scale_transform): the angular axis is linear
Bbox_transformed(limits, scale) ==
  [limits EXCEPT !.y0 = scale_transform_y(scale, @),
                 !.y1 = scale_transform_y(scale, @)]

\* _mtx = None, and a matrix of 0.5 / 0
NoMatrix  == [none |-> TRUE]
NotFinite == [finite |-> FALSE]

\* variant: only ymax of the limits is used
PolarAffine_matrix_from_ymax(scale, limits) ==
  LET limits_scaled == Bbox_transformed(limits, scale)
      yscale        == ymax(limits_scaled)
  IN  IF yscale = Zero THEN NotFinite
      ELSE [a |-> RDiv(<<1, 2>>, yscale), tx |-> <<1, 2>>, ty |-> <<1, 2>>]

\* the matrix get_matrix computes: Affine2D().scale(0.5 / yscale)
\* .translate(0.5, 0.5)
PolarAffine_matrix(scale, limits) ==
  LET limits_scaled == Bbox_transformed(limits, scale)
      yscale        == RSub(ymax(limits_scaled), ymin(limits_scaled))
  IN  IF yscale = Zero THEN NotFinite
      ELSE [a |-> RDiv(<<1, 2>>, yscale), tx |-> <<1, 2>>, ty |-> <<1, 2>>]

\* a new node: invalid, no matrix
PolarAffine == [invalid |-> TRUE, mtx |-> NoMatrix]

\* variant: a matrix once computed is never computed again
PolarAffine_get_matrix_stale(node, scale, limits) ==
  IF node.mtx = NoMatrix
  THEN [invalid |-> FALSE, mtx |-> PolarAffine_matrix(scale, limits)]
  ELSE [invalid |-> FALSE, mtx |-> node.mtx]

\* get_matrix: the node after the call; its mtx is the value returned
PolarAffine_get_matrix(node, scale, limits) ==
  IF node.invalid
  THEN [invalid |-> FALSE, mtx |-> PolarAffine_matrix(scale, limits)]
  ELSE node

\* the node after one of its children, the limits or the scale, has changed
invalidated(node) == [node EXCEPT !.invalid = TRUE]

----------------------------------------------------------------------------
(* The axis objects, the angular labels, the colormap registry and the     *)
(* flags of a ScalarMappable, as construction leaves them                  *)

\* tick locators and formatters
AutoLocator         == [kind |-> "AutoLocator"]
LogLocator          == [kind |-> "LogLocator"]
FixedLocator(locs)  == [kind |-> "FixedLocator", locs |-> locs]
RadialLocator(base) == [kind |-> "RadialLocator", base |-> base]
ScalarFormatter     == [kind |-> "ScalarFormatter"]
LogFormatterMathtext == [kind |-> "LogFormatterMathtext"]
ThetaFormatter      == [kind |-> "ThetaFormatter"]
FixedFormatter(seq) == [kind |-> "FixedFormatter", seq |-> seq]
FormatStrFormatter(fmt) == [kind |-> "FormatStrFormatter", fmt |-> fmt]

\* angles * (np.pi / 180.0): degrees to radians, on the angle grid
radians(angles) ==
  [i \in DOMAIN angles |-> (angles[i] * GridSteps) \div 360]

\* np.arange(0.0, 360.0, 45.0)
cla_angles == [i \in 1..8 |-> (i - 1) * 45]

\* Affine2D().translate(0.0, 1.1) and Affine2D().translate(0.0, 1.0 / 1.1)
ThetaLabel1Init == [angle |-> 0, radius |-> <<11, 10>>]
ThetaLabel2Init == [angle |-> 0, radius |-> RDiv(<<1, 1>>, <<11, 10>>)]

\* __init__ ends with cla(): angular ticks every 45 degrees, the radial
\* locator wrapped
InitGrids ==
  /\ _rpad = RPadInit
  /\ xaxis = [major_locator   |-> FixedLocator(radians(cla_angles)),
              major_formatter |-> ThetaFormatter]
  /\ yaxis = [major_locator   |-> RadialLocator(AutoLocator),
              major_formatter |-> ScalarFormatter]
  /\ theta_label1_position = ThetaLabel1Init
  /\ theta_label2_position = ThetaLabel2Init

\* datad of _cm.py: the data of the built-in colormaps
datad == [n \in {"jet", "gray"} |-> [builtin |-> n]]

\* LUTSIZE = mpl.rcParams['image.lut']
LUTSIZE == 256

LinearSegmentedColormap(name, data, lut) ==
  [name |-> name, data |-> data, N |-> lut]

\* checker keys of update_dict; 'array' is the key __init__ creates
Checkers == {"array", "c1", "c2"}

\* nothing called since the add_checker or check_update of a checker
NoCalls == [changed |-> FALSE, set_array |-> FALSE]

\* cm.py after import, and a new ScalarMappable
InitCm ==
  /\ cmap_d = [n \in DOMAIN datad |->
                LinearSegmentedColormap(n, datad[n], LUTSIZE)]
  /\ update_dict = [c \in {"array"} |-> FALSE]
  /\ notified = [c \in Checkers |-> NoCalls]

----------------------------------------------------------------------------
(* start_pan *)

\* variant: every button but the primary one zooms
start_pan_mode_any_zoom(pt, button) ==
  LET angle == r_label1_position.angle
      tr    == InvertedPolarTransform(pt, PolarAffine_yscale(viewLim),
                                      get_rmin)
      t     == tr.t * GridHalfDeg
  IN  IF button = 1
      THEN IF t >= angle - EpsilonHalfDeg /\ t <= angle + EpsilonHalfDeg
           THEN "drag_r_labels" ELSE ""
      ELSE "zoom"

start_pan_mode(pt, button) ==
  LET angle == r_label1_position.angle   \* half-degrees; code: radians
      tr    == InvertedPolarTransform(pt, PolarAffine_yscale(viewLim),
                                      get_rmin)
      t     == tr.t * GridHalfDeg
  IN  IF button = 1
      THEN IF t >= angle - EpsilonHalfDeg /\ t <= angle + EpsilonHalfDeg
           THEN "drag_r_labels" ELSE ""
      ELSE IF button = 3 THEN "zoom" ELSE ""

\* variant: a start during a gesture keeps the maximum radius of its snapshot
Bunch_keeps_rmax(pt, mode) ==
  [rmax          |-> IF pan_start # NoPan THEN pan_start.rmax ELSE get_rmax,
   yscale        |-> PolarAffine_yscale(viewLim),
   r_label_angle |-> r_label1_position.angle,
   x             |-> pt,
   mode          |-> mode]

Bunch(pt, mode) ==
  [rmax          |-> get_rmax,
   yscale        |-> PolarAffine_yscale(viewLim),
   r_label_angle |-> r_label1_position.angle,
   x             |-> pt,
   mode          |-> mode]

\* variant: a start that selects no mode stores no snapshot
start_pan_no_snapshot_without_mode(pt, button) ==
  /\ ngestures < MaxGestures
  /\ PolarAffine_yscale(viewLim) # <<0, 1>>
  /\ pan_start' = IF start_pan_mode(pt, button) = "" THEN pan_start
                   ELSE Bunch(pt, start_pan_mode(pt, button))
  /\ gesture' = "open"
  /\ ngestures' = ngestures + 1
  /\ last' = [op |-> "start_pan", fault |-> "", button |-> button,
              replaced |-> pan_start # NoPan]
  /\ transProjectionAffine'
       = PolarAffine_get_matrix(transProjectionAffine, "linear", viewLim)
  /\ UNCHANGED <<viewLim, r_label1_position, r_label2_position,
                 grid_vars, cm_vars>>

\* A zero radial span makes the PolarAffine matrix singular (0.5 / 0), and
\* transData.inverted() is then decided by numpy.linalg, outside this file:
\* gestures are started on an invertible transData only.  Inverting
\* transData reads the matrix of transProjectionAffine.
start_pan(pt, button) ==
  /\ ngestures < MaxGestures
  /\ PolarAffine_yscale(viewLim) # <<0, 1>>
  /\ pan_start' = Bunch(pt, start_pan_mode(pt, button))
  /\ gesture' = "open"
  /\ ngestures' = ngestures + 1
  /\ last' = [op |-> "start_pan", fault |-> "", button |-> button,
              replaced |-> pan_start # NoPan]
  /\ transProjectionAffine'
       = PolarAffine_get_matrix(transProjectionAffine, "linear", viewLim)
  /\ UNCHANGED <<viewLim, r_label1_position, r_label2_position,
                 grid_vars, cm_vars>>

----------------------------------------------------------------------------
(* end_pan *)

\* variant: the snapshot is kept with its mode cleared instead of deleted
end_pan_keeps_snapshot ==
  /\ IF pan_start = NoPan
     THEN /\ last' = [op |-> "end_pan", fault |-> "AttributeError"]
          /\ UNCHANGED <<pan_start, gesture>>
     ELSE /\ pan_start' = [pan_start EXCEPT !.mode = ""]
          /\ gesture' = "closed"
          /\ last' = [op |-> "end_pan", fault |-> ""]
  /\ UNCHANGED <<viewLim, transProjectionAffine, r_label1_position,
                 r_label2_position, ngestures, grid_vars, cm_vars>>

\* variant: the maximum radius of the snapshot is restored on release
end_pan_rolls_back ==
  /\ IF pan_start = NoPan
     THEN /\ last' = [op |-> "end_pan", fault |-> "AttributeError"]
          /\ UNCHANGED <<pan_start, gesture, viewLim>>
     ELSE /\ pan_start' = NoPan
          /\ gesture' = "closed"
          /\ viewLim' = [viewLim EXCEPT !.y1 = pan_start.rmax]
          /\ last' = [op |-> "end_pan", fault |-> ""]
  /\ UNCHANGED <<transProjectionAffine, r_label1_position,
                 r_label2_position, ngestures, grid_vars, cm_vars>>

end_pan ==
  /\ IF pan_start = NoPan
     THEN /\ last' = [op |-> "end_pan", fault |-> "AttributeError"]
          /\ UNCHANGED <<pan_start, gesture>>
     ELSE /\ pan_start' = NoPan
          /\ gesture' = "closed"
          /\ last' = [op |-> "end_pan", fault |-> ""]
  /\ UNCHANGED <<viewLim, transProjectionAffine, r_label1_position,
                 r_label2_position, ngestures, grid_vars, cm_vars>>

----------------------------------------------------------------------------
(* set_rmax / set_rmin: the assignment to viewLim.y1 / viewLim.y0 *)

set_rmax_on(vl, rmax) == [vl EXCEPT !.y1 = rmax]
set_rmin_on(vl, rmin) == [vl EXCEPT !.y0 = rmin]

----------------------------------------------------------------------------
(* drag_pan *)

\* lines "Deal with theta": dt in half-degrees, or the fault of the call
drag_dt(startt, t) ==
  LET dt0 == t - startt
      dt1 == startt - t
  IN  IF Abs(dt1) < Abs(dt0)
      THEN [fault |-> "NameError", dt |-> 0]   \* sign is not defined
      ELSE [fault |-> "", dt |-> (dt0 * (-1)) * GridHalfDeg]

\* variant: the delta is applied to the anchor left by the previous drag
drag_r_labels_from_current(p, pt) ==
  LET start == InvertedPolarTransform(p.x, p.yscale, get_rmin)
      cur   == InvertedPolarTransform(pt, p.yscale, get_rmin)
      d     == drag_dt(start.t, cur.t)
      rpad  == r_label1_position.pad
      from  == r_label1_position.angle
  IN  IF d.fault # ""
      THEN [fault |-> d.fault, vl |-> viewLim, written |-> FALSE,
            l1 |-> r_label1_position, l2 |-> r_label2_position]
      ELSE [fault |-> "", vl |-> viewLim, written |-> FALSE,
            l1 |-> [angle |-> from - d.dt, pad |-> rpad],
            l2 |-> [angle |-> from - d.dt, pad |-> -rpad]]

\* variant: the secondary label gets the padding of the primary, not negated
drag_r_labels_same_pad(p, pt) ==
  LET start == InvertedPolarTransform(p.x, p.yscale, get_rmin)
      cur   == InvertedPolarTransform(pt, p.yscale, get_rmin)
      d     == drag_dt(start.t, cur.t)
      rpad  == r_label1_position.pad
  IN  IF d.fault # ""
      THEN [fault |-> d.fault, vl |-> viewLim, written |-> FALSE,
            l1 |-> r_label1_position, l2 |-> r_label2_position]
      ELSE [fault |-> "", vl |-> viewLim, written |-> FALSE,
            l1 |-> [angle |-> p.r_label_angle - d.dt, pad |-> rpad],
            l2 |-> [angle |-> p.r_label_angle - d.dt, pad |-> rpad]]

drag_r_labels(p, pt) ==
  LET start == InvertedPolarTransform(p.x, p.yscale, get_rmin)
      cur   == InvertedPolarTransform(pt, p.yscale, get_rmin)
      d     == drag_dt(start.t, cur.t)
      rpad  == r_label1_position.pad
  IN  IF d.fault # ""
      THEN [fault |-> d.fault, vl |-> viewLim, written |-> FALSE,
            l1 |-> r_label1_position, l2 |-> r_label2_position]
      ELSE [fault |-> "", vl |-> viewLim, written |-> FALSE,
            l1 |-> [angle |-> p.r_label_angle - d.dt, pad |-> rpad],
            l2 |-> [angle |-> p.r_label_angle - d.dt, pad |-> -rpad]]

zoom_rmax(p, pt) ==
  LET start == InvertedPolarTransform(p.x, p.yscale, get_rmin)
      cur   == InvertedPolarTransform(pt, p.yscale, get_rmin)
      scale == RDiv(cur.r, start.r)
  IN  RDiv(p.rmax, scale)

\* variant: every mode but drag_r_labels zooms
drag_pan_effect_else_zoom(p, pt) ==
  IF p.mode = "drag_r_labels"
  THEN drag_r_labels(p, pt)
  ELSE [fault |-> "", vl |-> set_rmax_on(viewLim, zoom_rmax(p, pt)),
        written |-> TRUE,
        l1 |-> r_label1_position, l2 |-> r_label2_position]

drag_pan_effect(p, pt) ==
  IF p.mode = "drag_r_labels"
  THEN drag_r_labels(p, pt)
  ELSE IF p.mode = "zoom"
       THEN [fault |-> "", vl |-> set_rmax_on(viewLim, zoom_rmax(p, pt)),
             written |-> TRUE,
             l1 |-> r_label1_position, l2 |-> r_label2_position]
       ELSE [fault |-> "", vl |-> viewLim, written |-> FALSE,
             l1 |-> r_label1_position, l2 |-> r_label2_position]

\* the radial limits kept in the state space (MaxNum, MaxDen)
InBounds(vl) == /\ Abs(vl.y1[1]) <= MaxNum /\ vl.y1[2] <= MaxDen
                /\ Abs(vl.y0[1]) <= MaxNum /\ vl.y0[2] <= MaxDen

drag_pan(button, key, pt) ==
  /\ IF pan_start = NoPan
     THEN /\ last' = [op |-> "drag_pan", fault |-> "AttributeError",
                      button |-> button, pt |-> pt]
          /\ UNCHANGED <<viewLim, transProjectionAffine,
                         r_label1_position, r_label2_position>>
     ELSE LET e == drag_pan_effect(pan_start, pt)
          IN  /\ InBounds(e.vl)
              /\ viewLim' = e.vl
              \* set_rmax writes viewLim.y1, a child of the node
              /\ transProjectionAffine'
                   = IF e.written THEN invalidated(transProjectionAffine)
                     ELSE transProjectionAffine
              /\ r_label1_position' = e.l1
              /\ r_label2_position' = e.l2
              /\ last' = [op |-> "drag_pan", fault |-> e.fault, pt |-> pt]
  /\ UNCHANGED <<pan_start, gesture, ngestures, grid_vars, cm_vars>>

----------------------------------------------------------------------------
(* The axes after construction, and every call on it *)

Init ==
  /\ viewLim \in InitLimits
  /\ transProjectionAffine = PolarAffine
  /\ r_label1_position = [angle |-> RLabelAngleInit, pad |-> RPadInit]
  /\ r_label2_position = [angle |-> RLabelAngleInit, pad |-> RPadInit]
  /\ pan_start = NoPan
  /\ gesture = "never"
  /\ ngestures = 0
  /\ last = [op |-> "init", fault |-> ""]
  /\ InitGrids
  /\ InitCm

Next ==
  \/ \E pt \in Pointers, b \in Buttons : start_pan(pt, b)
  \/ \E pt \in Pointers, b \in DragButtons, key \in Keys :
        drag_pan(b, key, pt)
  \/ end_pan

Spec == Init /\ [][Next]_vars

----------------------------------------------------------------------------
(* Properties of the gesture calls *)

LimitsAndLabelsUnchanged ==
  /\ viewLim' = viewLim
  /\ r_label1_position' = r_label1_position
  /\ r_label2_position' = r_label2_position

\* the step is a drag_pan call made while a snapshot with the given mode exists
DragStepInMode(mode) ==
  /\ last'.op = "drag_pan"
  /\ pan_start # NoPan
  /\ pan_start.mode = mode

\* the state is the one a drag_pan call in the given mode has just left
AfterDragInMode(mode) ==
  /\ last.op = "drag_pan"
  /\ pan_start # NoPan
  /\ pan_start.mode = mode

\* distance around the circle between two angles in half-degrees
CircDist(a, b) ==
  LET d == (a - b) % (GridSteps * GridHalfDeg)
  IN  IF d <= HalfTurn * GridHalfDeg THEN d ELSE GridSteps * GridHalfDeg - d

\* C1: a drag_pan called while no gesture is active (before any start_pan, or
\* after an end_pan with no later start_pan) ends with a fault and changes
\* neither the radial limits nor either radial-label position.
C1_DragWithoutGestureFaults ==
  [][(last'.op = "drag_pan" /\ gesture # "open")
       => (last'.fault # "" /\ LimitsAndLabelsUnchanged)]_vars

C1_Witness ==
  /\ last.op = "drag_pan"
  /\ last.fault = "AttributeError"
  /\ gesture = "closed"
  /\ ngestures >= 1

\* C2: in every reachable state the snapshot _pan_start exists exactly when a
\* start_pan has been called and not yet followed by its end_pan; there is none
\* initially or after end_pan, and drag_pan neither creates nor removes it.
C2_SnapshotIffGestureOpen ==
  (pan_start # NoPan) <=> (gesture = "open")

C2_Witness ==
  /\ last.op = "drag_pan"
  /\ last.fault = ""
  /\ gesture = "open"
  /\ pan_start # NoPan
  /\ ngestures = 2

C4_WindowAroundCircle ==
  (last.op = "start_pan" /\ last.button = 1) =>
    LET tr == InvertedPolarTransform(pan_start.x, pan_start.yscale, get_rmin)
    IN  (pan_start.mode = "drag_r_labels")
          <=> (CircDist(tr.t * GridHalfDeg, pan_start.r_label_angle)
                 <= EpsilonHalfDeg)

\* C5: while the snapshot's mode is unset, every drag_pan returns normally and
\* leaves the radial limits and both radial-label positions as they were.
C5_NoModeDragIsNoOp ==
  [][DragStepInMode("")
       => (last'.fault = "" /\ LimitsAndLabelsUnchanged)]_vars

C5_Witness ==
  /\ AfterDragInMode("")
  /\ last.fault = ""
  /\ ngestures = 2
  /\ r_label1_position.angle # RLabelAngleInit

\* C6: in zoom mode, after drag_pan the maximum radius get_rmax() equals
\* starting_rmax / (current_radius / starting_radius), the radii being the data
\* radii under the starting and the current pointer position.
C6_ZoomRmax ==
  [][DragStepInMode("zoom")
       => LET start == InvertedPolarTransform(pan_start.x, pan_start.yscale,
                                              get_rmin)
              cur   == InvertedPolarTransform(last'.pt, pan_start.yscale,
                                              get_rmin)
          IN  ymax(viewLim') = RDiv(pan_start.rmax, RDiv(cur.r, start.r))]_vars

\* C7: in drag-label mode, after every drag_pan both radial-label anchors hold
\* the angle snapshotted at start_pan minus the computed delta in degrees; the
\* anchor left by the previous drag_pan plays no part, so a drag to the pointer
\* position of the previous drag leaves the anchors where they are.
C7_AnchorFromSnapshot ==
  [][DragStepInMode("drag_r_labels")
       => LET start == InvertedPolarTransform(pan_start.x, pan_start.yscale,
                                              get_rmin)
              cur   == InvertedPolarTransform(last'.pt, pan_start.yscale,
                                              get_rmin)
              delta == (-(cur.t - start.t)) * GridHalfDeg
          IN  /\ r_label1_position'.angle = pan_start.r_label_angle - delta
              /\ r_label2_position'.angle = pan_start.r_label_angle - delta
              /\ (last.op = "drag_pan" /\ last.pt = last'.pt)
                   => /\ r_label1_position' = r_label1_position
                      /\ r_label2_position' = r_label2_position]_vars

C7_Witness ==
  /\ AfterDragInMode("drag_r_labels")
  /\ pan_start.r_label_angle = 45
  /\ pan_start.x.phi = 9
  /\ last.pt.phi = 5
  /\ r_label1_position.angle = 25
  /\ r_label2_position.angle = 25

\* C8: in drag-label mode the delta between the starting and the current
\* pointer angle is the shorter way around the circle: its magnitude never
\* exceeds pi (180 degrees), and computing it never faults.
C8_DeltaAtMostHalfTurn ==
  AfterDragInMode("drag_r_labels") =>
    LET start == InvertedPolarTransform(pan_start.x, pan_start.yscale,
                                        get_rmin)
        cur   == InvertedPolarTransform(last.pt, pan_start.yscale, get_rmin)
    IN  /\ last.fault = ""
        /\ Abs(drag_dt(start.t, cur.t).dt) <= HalfTurn * GridHalfDeg
        /\ Abs(pan_start.r_label_angle - r_label1_position.angle)
             <= HalfTurn * GridHalfDeg

\* C9: after every drag_pan in drag-label mode the primary label's radial
\* padding is the value it had before the call and the secondary label's
\* padding is its negation, after any number of drags and gestures.
C9_PaddingNegated ==
  [][DragStepInMode("drag_r_labels")
       => /\ r_label1_position'.pad = r_label1_position.pad
          /\ r_label2_position'.pad = -(r_label1_position'.pad)]_vars

C9_Witness ==
  /\ AfterDragInMode("drag_r_labels")
  /\ last.op = "drag_pan"
  /\ ngestures = 2
  /\ r_label1_position.pad = RPadInit
  /\ r_label2_position.pad = -RPadInit
  /\ r_label1_position.angle # pan_start.r_label_angle

\* C10: end_pan only discards the snapshot: the radial limits and both
\* radial-label positions after it equal their values before it, so what the
\* drags changed stays changed; and no call other than drag_pan changes the
\* limits or the label positions, so nothing restores the snapshotted values.
C10_EndPanKeepsMutations ==
  [][/\ last'.op = "end_pan"
          => /\ LimitsAndLabelsUnchanged
             /\ pan_start' = NoPan
     /\ ~LimitsAndLabelsUnchanged => last'.op = "drag_pan"]_vars

C10_Witness ==
  /\ last.op = "end_pan"
  /\ last.fault = ""
  /\ pan_start = NoPan
  /\ viewLim = [y0 |-> <<0, 1>>, y1 |-> <<5, 1>>]

\* C11: a start_pan issued while a gesture is active leaves the axes in the
\* state that end_pan followed by the same start_pan produces: end_pan changes
\* only the snapshot, and every field of the new snapshot is taken from the
\* limits, the label anchor and the arguments of the call, none from the
\* snapshot it replaces.
C11_RestartReplacesSnapshot ==
  [][(last'.op = "start_pan" /\ pan_start # NoPan)
       => /\ LimitsAndLabelsUnchanged
          /\ gesture' = "open"
          /\ pan_start'.rmax = ymax(viewLim)
          /\ pan_start'.yscale = RSub(ymax(viewLim), ymin(viewLim))
          /\ pan_start'.r_label_angle = r_label1_position.angle
          /\ pan_start'.mode = start_pan_mode(pan_start'.x, last'.button)
          /\ DOMAIN pan_start' = {"rmax", "yscale", "r_label_angle", "x",
                                  "mode"}]_vars

C11_Witness ==
  /\ last.op = "start_pan"
  /\ last.replaced
  /\ pan_start.mode = "drag_r_labels"
  /\ pan_start.r_label_angle # RLabelAngleInit

----------------------------------------------------------------------------
(* PolarTransform and InvertedPolarTransform as functions of point batches  *)
(*                                                                         *)
(* A data row is [t, r]: t a grid angle, r a rational radius.  A projected *)
(* point (x, y) is kept in polar form about the origin, [phi, dist] with   *)
(* x = dist * cos(phi), y = dist * sin(phi), dist >= 0, phi in [0, 2*pi),  *)
(* and phi = 0 at the origin.                                              *)

\* largest number of rows in a batch
MaxBatch == 2

\* (nan, nan), and a row whose angle is nan
NaNPoint == [nan |-> TRUE]
NaNRow   == [nan |-> TRUE]
NaNAngle(r) == [tnan |-> TRUE, r |-> r]

\* the point (r * cos(t), r * sin(t))
XY(t, r) ==
  IF r = Zero THEN [phi |-> 0, dist |-> Zero]
  ELSE IF RLess(r, Zero)
       THEN [phi |-> (t + HalfTurn) % GridSteps, dist |-> RSub(Zero, r)]
       ELSE [phi |-> t % GridSteps, dist |-> r]

\* a transform object: its class and whether it was built with an axes
PolarTransform(axis) == [kind |-> "PolarTransform", axis |-> axis]

\* the rmin a transform object reads: viewLim.ymin of its axes, else 0
bound_rmin(axis, vl) == IF axis THEN ymin(vl) ELSE Zero

\* variant: rows on the inner circle are masked too (mask = r <= 0)
PolarTransform_row_mask_boundary(axis, vl, row) ==
  LET rmin == bound_rmin(axis, vl)
      r    == RSub(row.r, rmin)
  IN  IF rmin # Zero
      THEN IF RLess(r, Zero) \/ r = Zero THEN NaNPoint ELSE XY(row.t, r)
      ELSE XY(row.t, row.r)

\* one row of PolarTransform.transform
PolarTransform_row(axis, vl, row) ==
  LET rmin == bound_rmin(axis, vl)
      r    == RSub(row.r, rmin)
  IN  IF rmin # Zero
      THEN IF RLess(r, Zero) THEN NaNPoint ELSE XY(row.t, r)
      ELSE XY(row.t, row.r)

\* one row of InvertedPolarTransform.transform: r = sqrt(x*x + y*y) + rmin,
\* theta = arccos(x / r) with that r, mirrored where y < 0;  arccos is nan
\* outside [-1, 1] and for 0 / 0
InvertedPolarTransform_row(axis, vl, p) ==
  IF p = NaNPoint THEN NaNRow
  ELSE LET rmin == bound_rmin(axis, vl)
           r    == RAdd(p.dist, rmin)
       IN  IF \/ r = Zero
              \/ Abs(p.dist[1] * r[2] * Cos(p.phi))
                   > 1000 * Abs(r[1]) * p.dist[2]
           THEN NaNAngle(r)
           ELSE InvertedPolarTransform([phi |-> p.phi, k |-> p.dist[1]],
                                       <<DistDen, p.dist[2]>>, rmin)

PolarTransform_inverted(tr) ==
  [kind |-> "InvertedPolarTransform", axis |-> tr.axis]

InvertedPolarTransform_inverted(tr) == PolarTransform(FALSE)

inverted(tr) ==
  IF tr.kind = "PolarTransform" THEN PolarTransform_inverted(tr)
  ELSE InvertedPolarTransform_inverted(tr)

\* tr.transform(rows)
transform(tr, vl, rows) ==
  [i \in DOMAIN rows |->
     IF tr.kind = "PolarTransform"
     THEN PolarTransform_row(tr.axis, vl, rows[i])
     ELSE InvertedPolarTransform_row(tr.axis, vl, rows[i])]

----------------------------------------------------------------------------
(* PolarTransform.transform_path                                           *)
(*                                                                         *)
(* A path is [vertices, codes, steps]: a sequence of data rows, a sequence *)
(* of codes (empty for codes = None) and _interpolation_steps.             *)

\* Path.interpolated(steps): steps - 1 vertices are put on the straight line
\* between each two consecutive vertices, with code LINETO
Path_interpolated(path) ==
  IF path.steps = 1 THEN path
  ELSE
    LET v == path.vertices
        k == path.steps
        m == (Len(v) - 1) * k + 1
        seg(j) == ((j - 1) \div k) + 1
        vert(j) ==
          LET a == v[seg(j)]
              i == (j - 1) % k
          IN  IF i = 0 THEN a
              ELSE LET b == v[seg(j) + 1]
                   IN  [t |-> a.t + ((b.t - a.t) * i) \div k,
                        r |-> RAdd(a.r, RMul(RSub(b.r, a.r), <<i, k>>))]
    IN  [vertices |-> [j \in 1..m |-> vert(j)],
         codes    |-> IF path.codes = <<>> THEN <<>>
                      ELSE [j \in 1..m |-> IF (j - 1) % k = 0
                                           THEN path.codes[seg(j)]
                                           ELSE "LINETO"],
         steps    |-> k]

\* variant: every path is interpolated
transform_path_always_interpolated(tr, vl, path) ==
  LET ipath == Path_interpolated(path)
  IN  [vertices |-> transform(tr, vl, ipath.vertices), codes |-> ipath.codes]

transform_path(tr, vl, path) ==
  LET vertices == path.vertices
  IN  IF Len(vertices) = 2 /\ vertices[1].t = vertices[2].t
      THEN [vertices |-> transform(tr, vl, vertices), codes |-> path.codes]
      ELSE LET ipath == Path_interpolated(path)
           IN  [vertices |-> transform(tr, vl, ipath.vertices),
                codes    |-> ipath.codes]

----------------------------------------------------------------------------
(* The projection applied to batches and paths under fixed radial limits   *)

\* rmin = 0, rmin > 0 and rmin < 0
ProjLimits == {[y0 |-> <<0, 1>>,  y1 |-> <<10, 1>>],
               [y0 |-> <<3, 1>>,  y1 |-> <<10, 1>>],
               [y0 |-> <<-2, 1>>, y1 |-> <<10, 1>>]}

Rows == {[t |-> 0,   r |-> <<4, 1>>],  [t |-> 224, r |-> <<3, 1>>],
         [t |-> 36,  r |-> <<1, 1>>],  [t |-> 9,   r |-> <<-1, 1>>],
         [t |-> 100, r |-> <<-3, 1>>]}

Batches == UNION {[1..n -> Rows] : n \in 1..MaxBatch}

PathVertices ==
  {<<[t |-> 8, r |-> <<4, 1>>]>>,
   <<[t |-> 8, r |-> <<4, 1>>], [t |-> 8, r |-> <<6, 1>>]>>,
   <<[t |-> 8, r |-> <<4, 1>>], [t |-> 24, r |-> <<4, 1>>]>>,
   <<[t |-> 0, r |-> <<4, 1>>], [t |-> 144, r |-> <<4, 1>>]>>,
   <<[t |-> 8, r |-> <<4, 1>>], [t |-> 8, r |-> <<6, 1>>],
     [t |-> 8, r |-> <<1, 1>>]>>,
   <<[t |-> 0, r |-> <<1, 1>>], [t |-> 16, r |-> <<5, 1>>],
     [t |-> 40, r |-> <<2, 1>>]>>}

PathSteps == {1, 2, 4}

Paths ==
  {[vertices |-> v, codes |-> c, steps |-> k] :
     <<v, c, k>> \in
       {q \in PathVertices
                \X {<<>>, <<"MOVETO">>, <<"MOVETO", "LINETO">>,
                    <<"MOVETO", "LINETO", "LINETO">>}
                \X PathSteps :
          q[2] = <<>> \/ Len(q[2]) = Len(q[1])}}

\* boxes and the scale a PolarAffine is built on
AffineBoxes ==
  {[x0 |-> x[1], x1 |-> x[2], y0 |-> y[1], y1 |-> y[2]] :
     x \in {<<0, 1000>>, <<0, TwoPi>>, <<500, 2000>>},
     y \in {<<Zero, <<10, 1>>>>, <<<<3, 1>>, <<4, 1>>>>,
            <<<<1, 1>>, <<100, 1>>>>, <<<<10, 1>>, <<1, 10>>>>,
            <<<<-2, 1>>, <<2, 1>>>>, <<<<3, 1>>, <<3, 1>>>>}}

Loggable(limits) ==
  {limits.y0, limits.y1} \subseteq {<<1, 10>>, <<1, 1>>, <<10, 1>>, <<100, 1>>}

\* an affine matrix [a, tx, ty] applied to a projected point: the point at
\* distance a * dist, in the same direction, from the centre (tx, ty)
Affine2D_transform(mtx, p) ==
  IF p = NaNPoint THEN NaNPoint
  ELSE [phi |-> p.phi, dist |-> RMul(mtx.a, p.dist),
        cx |-> mtx.tx, cy |-> mtx.ty]

\* Bbox.unit()
Bbox_unit == [x0 |-> 0, x1 |-> 1000, y0 |-> Zero, y1 |-> <<1, 1>>]

\* variant: the data chain projects without the axes
transData_pure_projection(vl, row) ==
  Affine2D_transform(PolarAffine_matrix("linear", vl),
                     PolarTransform_row(FALSE, vl, row))

\* transData up to transAxes, under the linear transScale:
\* transProjection + transProjectionAffine
transData(vl, row) ==
  Affine2D_transform(PolarAffine_matrix("linear", vl),
                     PolarTransform_row(TRUE, vl, row))

\* variant: the angular chain projects with the axes
xaxis_transform_with_axes(vl, row) ==
  Affine2D_transform(PolarAffine_matrix("linear", Bbox_unit),
                     PolarTransform_row(TRUE, vl, row))

\* _xaxis_transform up to transAxes:
\* transPureProjection + PolarAffine(IdentityTransform(), Bbox.unit())
xaxis_transform(vl, row) ==
  Affine2D_transform(PolarAffine_matrix("linear", Bbox_unit),
                     PolarTransform_row(FALSE, vl, row))


\* RadialLocator.__call__ on the ticks self.base() returned
\* variant: a tick of zero is kept
RadialLocator_call_nonnegative(ticks) ==
  SelectSeq(ticks, LAMBDA x : ~RLess(x, Zero))

RadialLocator_call(ticks) ==
  SelectSeq(ticks, LAMBDA x : RLess(Zero, x))

\* candidates the wrapped locator returns
MaxTicks == 4
TickValues == {<<-1, 1>>, Zero, <<2, 1>>}
TickLists == UNION {[1..n -> TickValues] : n \in 0..MaxTicks}

\* points the data chain is applied to: the rows above and points on the
\* inner and outer circles of the limits
DataRows ==
  Rows \cup {[t |-> t, r |-> r] :
               t \in {0, 36, 100},
               r \in UNION {{vl.y0, vl.y1} : vl \in ProjLimits}}

gesture_vars == <<transProjectionAffine, r_label1_position,
                  r_label2_position, pan_start, gesture, ngestures>>

\* tr = PolarTransform(axes) or PolarTransform(); tr.transform(rows)
call_transform(axis, rows) ==
  /\ last' = [op   |-> "transform",
              tr   |-> PolarTransform(axis),
              rows |-> rows,
              out  |-> transform(PolarTransform(axis), viewLim, rows)]
  /\ UNCHANGED <<viewLim, gesture_vars, grid_vars, cm_vars>>

\* tr.inverted().transform(out) on the result of tr.transform(rows)
call_inverse ==
  /\ last.op = "transform"
  /\ last' = [op   |-> "inverse",
              tr   |-> inverted(last.tr),
              rows |-> last.out,
              out  |-> transform(inverted(last.tr), viewLim, last.out),
              data |-> last.rows]
  /\ UNCHANGED <<viewLim, gesture_vars, grid_vars, cm_vars>>

\* tr.inverted().inverted().transform(rows)
call_reinverted(axis, rows) ==
  LET tr == inverted(inverted(PolarTransform(axis)))
  IN  /\ last' = [op   |-> "reinverted",
                  from |-> PolarTransform(axis),
                  tr   |-> tr,
                  rows |-> rows,
                  out  |-> transform(tr, viewLim, rows)]
      /\ UNCHANGED <<viewLim, gesture_vars, grid_vars, cm_vars>>

call_transform_path(axis, path) ==
  /\ last' = [op   |-> "transform_path",
              tr   |-> PolarTransform(axis),
              path |-> path,
              out  |-> transform_path(PolarTransform(axis), viewLim, path)]
  /\ UNCHANGED <<viewLim, gesture_vars, grid_vars, cm_vars>>

\* PolarAffine(scale_transform, limits).get_matrix()
call_get_matrix(scale, limits) ==
  /\ scale = "log" => Loggable(limits)
  /\ last' = [op     |-> "get_matrix",
              scale  |-> scale,
              limits |-> limits,
              mtx    |-> PolarAffine_get_matrix(PolarAffine, scale,
                                                limits).mtx]
  /\ UNCHANGED <<viewLim, gesture_vars, grid_vars, cm_vars>>

\* RadialLocator(base)() where base() returns ticks
call_RadialLocator(ticks) ==
  /\ last' = [op    |-> "RadialLocator",
              ticks |-> ticks,
              out   |-> RadialLocator_call(ticks)]
  /\ UNCHANGED <<viewLim, gesture_vars, grid_vars, cm_vars>>

\* transData applied to a point, one on the inner or the outer circle included
call_transData(row) ==
  /\ last' = [op  |-> "transData",
              row |-> row,
              out |-> transData(viewLim, row)]
  /\ UNCHANGED <<viewLim, gesture_vars, grid_vars, cm_vars>>

InitProjection ==
  /\ viewLim \in ProjLimits
  /\ transProjectionAffine = PolarAffine
  /\ r_label1_position = [angle |-> RLabelAngleInit, pad |-> RPadInit]
  /\ r_label2_position = [angle |-> RLabelAngleInit, pad |-> RPadInit]
  /\ pan_start = NoPan
  /\ gesture = "never"
  /\ ngestures = 0
  /\ last = [op |-> "init"]
  /\ InitGrids
  /\ InitCm

NextProjection ==
  \/ \E axis \in BOOLEAN, rows \in Batches : call_transform(axis, rows)
  \/ call_inverse
  \/ \E axis \in BOOLEAN, rows \in Batches : call_reinverted(axis, rows)
  \/ \E axis \in BOOLEAN, path \in Paths : call_transform_path(axis, path)
  \/ \E scale \in {"linear", "log"}, limits \in AffineBoxes :
        call_get_matrix(scale, limits)
  \/ \E ticks \in TickLists : call_RadialLocator(ticks)
  \/ \E row \in DataRows : call_transData(row)

SpecProjection == InitProjection /\ [][NextProjection]_vars

----------------------------------------------------------------------------
(* Claims about the projection *)

IsNaNPoint(p) == p = NaNPoint

\* C12 as stated: for every rmin, zero included, each row with r < rmin comes
\* out as (nan, nan), and each row with r >= rmin comes out as a number that
\* is the projection of that row alone.
C12_ClippedForEveryRmin ==
  last.op = "transform" =>
    \A i \in DOMAIN last.rows :
      LET rmin == bound_rmin(last.tr.axis, viewLim)
      IN  IF RLess(last.rows[i].r, rmin)
          THEN IsNaNPoint(last.out[i])
          ELSE /\ ~IsNaNPoint(last.out[i])
               /\ last.out[i] = transform(last.tr, viewLim,
                                          <<last.rows[i]>>)[1]

\* C12: with rmin # 0 each row with r < rmin comes out as (nan, nan) and the
\* other rows as (r - rmin) * (cos t, sin t); with rmin = 0 no row is masked
\* and every row comes out as r * (cos t, sin t), a negative radius included;
\* each output row is the projection of its input row alone.
C12_ClippedWhenRminNonZero ==
  last.op = "transform" =>
    \A i \in DOMAIN last.rows :
      LET rmin == bound_rmin(last.tr.axis, viewLim)
          row  == last.rows[i]
      IN  /\ (rmin # Zero /\ RLess(row.r, rmin)) => IsNaNPoint(last.out[i])
          /\ (rmin # Zero /\ ~RLess(row.r, rmin))
               => last.out[i] = XY(row.t, RSub(row.r, rmin))
          /\ rmin = Zero => last.out[i] = XY(row.t, row.r)
          /\ last.out[i] = transform(last.tr, viewLim, <<row>>)[1]

C12_Witness ==
  /\ last.op = "transform"
  /\ last.tr.axis
  /\ get_rmin = <<3, 1>>
  /\ Len(last.rows) = 2
  /\ last.rows[1].r = <<1, 1>>
  /\ IsNaNPoint(last.out[1])
  /\ last.rows[2].r = <<3, 1>>
  /\ last.out[2] = [phi |-> 0, dist |-> Zero]

\* C13 as stated: for every rmin and every row with r > rmin and r # 0, the
\* projection followed by its inverse gives back r and the angle modulo 2*pi.
C13_RoundTrip ==
  last.op = "inverse" =>
    \A i \in DOMAIN last.data :
      LET rmin == bound_rmin(last.tr.axis, viewLim)
          row  == last.data[i]
      IN  (RLess(rmin, row.r) /\ row.r # Zero)
            => last.out[i] = [t |-> row.t % GridSteps, r |-> row.r]

\* C14 as stated: inverted() keeps the axes of the projection in both
\* directions, and inverted().inverted() gives the output of the original
\* projection for every batch and every rmin.
C14_DoubleInversion ==
  last.op = "reinverted" =>
    /\ inverted(last.from).axis = last.from.axis
    /\ last.tr.axis = last.from.axis
    /\ last.out = transform(last.from, viewLim, last.rows)

C21_PositiveTicksInOrder ==
  last.op = "RadialLocator" =>
    LET t      == last.ticks
        out    == last.out
        pos(i) == Cardinality({k \in 1..i : RLess(Zero, t[k])})
    IN  /\ Len(out) = pos(Len(t))
        /\ \A i \in 1..Len(t) : RLess(Zero, t[i]) => out[pos(i)] = t[i]
        /\ \A j \in 1..Len(out) : RLess(Zero, out[j])

\* a list with a zero, a negative and a repeated positive candidate
C21_Witness ==
  /\ last.op = "RadialLocator"
  /\ last.ticks = <<<<2, 1>>, Zero, <<-1, 1>>, <<2, 1>>>>
  /\ last.out = <<<<2, 1>>, <<2, 1>>>>

\* C23: under the linear radial scale and limits rmin < rmax, with rmin zero,
\* positive or negative, the data chain puts a point of radius rmax at
\* distance 1/2 from the centre (1/2, 1/2) and a point of radius rmin on the
\* centre.
C23_DataChainSpansCircle ==
  (last.op = "transData" /\ RLess(get_rmin, get_rmax)) =>
    /\ last.row.r = get_rmax
          => /\ last.out # NaNPoint
             /\ last.out.dist = <<1, 2>>
             /\ last.out.phi = last.row.t % GridSteps
             /\ last.out.cx = <<1, 2>> /\ last.out.cy = <<1, 2>>
    /\ last.row.r = get_rmin
          => /\ last.out # NaNPoint
             /\ last.out.dist = Zero
             /\ last.out.cx = <<1, 2>> /\ last.out.cy = <<1, 2>>

\* a point of radius rmax under a negative rmin
C23_Witness ==
  /\ last.op = "transData"
  /\ get_rmin = <<-2, 1>>
  /\ last.row = [t |-> 36, r |-> <<10, 1>>]
  /\ last.out.dist = <<1, 2>>

----------------------------------------------------------------------------
(* The limit-setting calls of the axes, with the gesture and get_matrix    *)

\* arguments of the calls
RmaxValues == {<<10, 1>>, <<4, 1>>, <<3, 1>>}
RminValues == {Zero, <<3, 1>>}
XlimArgs   == {<<>>, <<1000, 3000>>}
XScales    == {"linear", "log"}
\* one gesture in a behaviour, started with the pointer on the circle
LimPointers == {[phi |-> 9, k |-> 2], [phi |-> 9, k |-> 4]}
LimStarts   == {[phi |-> 9, k |-> 4]}
LimButtons  == {1, 3}

\* the unit box of a new axes, and the box once the angular limits are set
LimitsInit == {[x0 |-> 0, x1 |-> 1000,  y0 |-> Zero, y1 |-> <<1, 1>>],
               [x0 |-> 0, x1 |-> TwoPi, y0 |-> Zero, y1 |-> <<1, 1>>]}

set_rmax(rmax) ==
  /\ viewLim' = set_rmax_on(viewLim, rmax)
  /\ transProjectionAffine' = invalidated(transProjectionAffine)
  /\ last' = [op |-> "set_rmax", fault |-> ""]
  /\ UNCHANGED <<r_label1_position, r_label2_position, pan_start, gesture,
                 ngestures, grid_vars, cm_vars>>

set_rmin(rmin) ==
  /\ viewLim' = set_rmin_on(viewLim, rmin)
  /\ transProjectionAffine' = invalidated(transProjectionAffine)
  /\ last' = [op |-> "set_rmin", fault |-> ""]
  /\ UNCHANGED <<r_label1_position, r_label2_position, pan_start, gesture,
                 ngestures, grid_vars, cm_vars>>

\* variant: the angular limits are set from the arguments
set_xlim_from_args(args) ==
  /\ viewLim' = IF Len(args) = 2
                THEN [viewLim EXCEPT !.x0 = args[1], !.x1 = args[2]]
                ELSE viewLim
  /\ transProjectionAffine' = invalidated(transProjectionAffine)
  /\ last' = [op |-> "set_xlim", fault |-> "", args |-> args]
  /\ UNCHANGED <<r_label1_position, r_label2_position, pan_start, gesture,
                 ngestures, grid_vars, cm_vars>>

\* viewLim.intervalx = (0.0, np.pi * 2.0), whatever the arguments
set_xlim(args) ==
  /\ viewLim' = [viewLim EXCEPT !.x0 = 0, !.x1 = TwoPi]
  /\ transProjectionAffine' = invalidated(transProjectionAffine)
  /\ last' = [op |-> "set_xlim", fault |-> "", args |-> args]
  /\ UNCHANGED <<r_label1_position, r_label2_position, pan_start, gesture,
                 ngestures, grid_vars, cm_vars>>

\* variant: a scale other than linear is accepted and forces a new matrix
set_xscale_accepts(scale) ==
  /\ last' = [op |-> "set_xscale", fault |-> "", scale |-> scale]
  /\ transProjectionAffine'
       = IF scale # "linear" THEN invalidated(transProjectionAffine)
         ELSE transProjectionAffine
  /\ UNCHANGED <<viewLim, r_label1_position, r_label2_position, pan_start,
                 gesture, ngestures, grid_vars, cm_vars>>

set_xscale(scale) ==
  /\ last' = [op    |-> "set_xscale",
              fault |-> IF scale # "linear" THEN "NotImplementedError"
                        ELSE "",
              scale |-> scale]
  /\ UNCHANGED <<viewLim, transProjectionAffine, r_label1_position,
                 r_label2_position, pan_start, gesture, ngestures,
                 grid_vars, cm_vars>>

\* transProjectionAffine.get_matrix() under the linear transScale
get_matrix ==
  /\ transProjectionAffine'
       = PolarAffine_get_matrix(transProjectionAffine, "linear", viewLim)
  /\ last' = [op         |-> "get_matrix",
              fault      |-> "",
              recomputed |-> transProjectionAffine.invalid,
              mtx        |-> transProjectionAffine'.mtx]
  /\ UNCHANGED <<viewLim, r_label1_position, r_label2_position, pan_start,
                 gesture, ngestures, grid_vars, cm_vars>>

\* points on angular ticks and gridlines: radius 0, 1 and beyond
ChainRows == {[t |-> 9, r |-> Zero], [t |-> 36, r |-> <<1, 1>>],
              [t |-> 100, r |-> <<4, 1>>]}

\* _xaxis_transform applied to a point, under the limits of the moment
call_xaxis_transform(row) ==
  /\ last' = [op  |-> "xaxis_transform",
              fault |-> "",
              row |-> row,
              out |-> xaxis_transform(viewLim, row)]
  /\ UNCHANGED <<viewLim, gesture_vars, grid_vars, cm_vars>>

\* the start of the one gesture of a behaviour
first_start_pan(pt, button) == gesture = "never" /\ start_pan(pt, button)

InitLimitCalls ==
  /\ viewLim \in LimitsInit
  /\ transProjectionAffine = PolarAffine
  /\ r_label1_position = [angle |-> RLabelAngleInit, pad |-> RPadInit]
  /\ r_label2_position = [angle |-> RLabelAngleInit, pad |-> RPadInit]
  /\ pan_start = NoPan
  /\ gesture = "never"
  /\ ngestures = 0
  /\ last = [op |-> "init", fault |-> ""]
  /\ InitGrids
  /\ InitCm

NextLimitCalls ==
  \/ \E rmax \in RmaxValues : set_rmax(rmax)
  \/ \E rmin \in RminValues : set_rmin(rmin)
  \/ \E args \in XlimArgs : set_xlim(args)
  \/ \E scale \in XScales : set_xscale(scale)
  \/ get_matrix
  \/ \E row \in ChainRows : call_xaxis_transform(row)
  \/ \E pt \in LimStarts, b \in LimButtons : first_start_pan(pt, b)
  \/ \E pt \in LimPointers, b \in DragButtons, key \in Keys :
        drag_pan(b, key, pt)
  \/ end_pan

SpecLimitCalls == InitLimitCalls /\ [][NextLimitCalls]_vars

----------------------------------------------------------------------------
(* Claims about the limit-setting calls *)

\* C17: under every interleaving of set_rmax, set_rmin, set_xlim, zoom drags
\* and get_matrix, a node that is not invalid holds the matrix of the current
\* limits; get_matrix returns the matrix of the limits current at the call and
\* leaves the node valid, and a read of a valid node writes nothing.
C17_MatrixNeverStale ==
  [][/\ ~transProjectionAffine'.invalid
          => transProjectionAffine'.mtx = PolarAffine_matrix("linear", viewLim')
     /\ last'.op = "get_matrix"
          => /\ last'.mtx = PolarAffine_matrix("linear", viewLim)
             /\ ~transProjectionAffine'.invalid
             /\ ~transProjectionAffine.invalid
                  => transProjectionAffine' = transProjectionAffine]_vars

C17_Witness ==
  /\ last.op = "get_matrix"
  /\ last.recomputed
  /\ gesture = "open"
  /\ pan_start.mode = "zoom"
  /\ pan_start.rmax = <<1, 1>>
  /\ get_rmax = <<2, 1>>
  /\ last.mtx.a = <<1, 4>>

\* C18 as stated: a zero radial span (rmax = rmin) is never stored: the call
\* that would produce it, set_rmax, set_rmin or a zoom drag, is rejected and
\* the limits are left as they were.
C18_ZeroSpanNeverStored ==
  [][(ymax(viewLim) # ymin(viewLim) /\ ymax(viewLim') = ymin(viewLim'))
       => (last'.fault # "" /\ viewLim' = viewLim)]_vars

\* C19: set_xscale with a scale other than 'linear' raises and set_xscale
\* with 'linear' returns normally; neither changes the limits, the matrix
\* node, the label positions or the gesture snapshot.
C19_SetXscale ==
  [][last'.op = "set_xscale"
       => /\ last'.scale # "linear" => last'.fault = "NotImplementedError"
          /\ last'.scale = "linear" => last'.fault = ""
          /\ UNCHANGED <<viewLim, transProjectionAffine, r_label1_position,
                         r_label2_position, pan_start>>]_vars

C19_Witness ==
  /\ last.op = "set_xscale"
  /\ last.scale = "log"
  /\ last.fault = "NotImplementedError"
  /\ pan_start # NoPan
  /\ ~transProjectionAffine.invalid

C22_AngularChainIgnoresLimits ==
  last.op = "xaxis_transform" =>
    /\ last.out # NaNPoint
    /\ last.out.dist = RMul(<<1, 2>>, last.row.r)
    /\ last.row.r # Zero => last.out.phi = last.row.t % GridSteps
    /\ last.out.cx = <<1, 2>> /\ last.out.cy = <<1, 2>>
    /\ last.row.r = <<1, 1>> => last.out.dist = <<1, 2>>

\* radius 1 projected during a zoom gesture that has changed rmax, with a
\* minimum radius above 1
C22_Witness ==
  /\ last.op = "xaxis_transform"
  /\ last.row.r = <<1, 1>>
  /\ last.out.dist = <<1, 2>>
  /\ get_rmin = <<3, 1>>
  /\ get_rmax \notin RmaxValues
  /\ pan_start # NoPan

----------------------------------------------------------------------------
(* Zoom gestures whose pointer leaves the circle *)

\* radial limits with a minimum radius of zero and one above zero
ZoomLimits   == {[y0 |-> <<0, 1>>, y1 |-> <<1, 1>>],
                 [y0 |-> <<3, 1>>, y1 |-> <<4, 1>>]}
\* pointer positions between the centre and twice the circle radius
ZoomPointers == {[phi |-> 9, k |-> 1], [phi |-> 9, k |-> 4],
                 [phi |-> 9, k |-> 8]}
ZoomButtons  == {3}

InitZoom ==
  /\ viewLim \in ZoomLimits
  /\ transProjectionAffine = PolarAffine
  /\ r_label1_position = [angle |-> RLabelAngleInit, pad |-> RPadInit]
  /\ r_label2_position = [angle |-> RLabelAngleInit, pad |-> RPadInit]
  /\ pan_start = NoPan
  /\ gesture = "never"
  /\ ngestures = 0
  /\ last = [op |-> "init", fault |-> ""]
  /\ InitGrids
  /\ InitCm

NextZoom ==
  \/ \E pt \in ZoomPointers, b \in ZoomButtons : start_pan(pt, b)
  \/ \E pt \in ZoomPointers, b \in DragButtons, key \in Keys :
        drag_pan(b, key, pt)
  \/ end_pan

SpecZoom == InitZoom /\ [][NextZoom]_vars

----------------------------------------------------------------------------
(* Claims about the effects of one gesture *)

\* the maximum radius a zoom drag to pt leaves when only the snapshot p and
\* the radial minimum at the start of the gesture, p.rmax - p.yscale, are read
zoom_rmax_from_snapshot(p, pt) ==
  LET rmin0 == RSub(p.rmax, p.yscale)
      start == InvertedPolarTransform(p.x, p.yscale, rmin0)
      cur   == InvertedPolarTransform(pt, p.yscale, rmin0)
  IN  RDiv(p.rmax, RDiv(cur.r, start.r))

\* C25 as stated: in a zoom gesture the maximum radius written by a drag is a
\* function of the snapshot of start_pan and of the pointer position of that
\* drag alone, whatever drags came before it, for every starting rmin and
\* rmax.
C25_ZoomFromSnapshotOnly ==
  [][DragStepInMode("zoom")
       => viewLim'.y1 = zoom_rmax_from_snapshot(pan_start, last'.pt)]_vars

\* C26 as stated: a drag in zoom mode leaves get_rmin() and both radial-label
\* positions unchanged, and a drag in drag-label mode leaves get_rmin() and
\* get_rmax() unchanged.
C26_ModeMutatesOwnTarget ==
  [][/\ DragStepInMode("zoom")
          => /\ ymin(viewLim') = ymin(viewLim)
             /\ UNCHANGED <<r_label1_position, r_label2_position>>
     /\ DragStepInMode("drag_r_labels")
          => /\ ymin(viewLim') = ymin(viewLim)
             /\ ymax(viewLim') = ymax(viewLim)]_vars

----------------------------------------------------------------------------
(* Grids: cla, set_yscale, set_rscale, set_rgrids and set_thetagrids       *)

\* an argument left at None is <<>>, a given one is <<value>>
None == <<>>

\* Axis.cla: the default locator and formatter
Axis_cla == [major_locator |-> AutoLocator, major_formatter |-> ScalarFormatter]

\* Axes.set_yscale: yaxis.set_scale installs the default locator and
\* formatter of the scale
Axes_set_yscale(scale) ==
  IF scale = "log"
  THEN [major_locator |-> LogLocator, major_formatter |-> LogFormatterMathtext]
  ELSE [major_locator |-> AutoLocator, major_formatter |-> ScalarFormatter]

RECURSIVE SeqMin(_)
SeqMin(q) == IF Len(q) = 1 THEN q[1] ELSE RMin(q[1], SeqMin(Tail(q)))

RECURSIVE SeqMax(_)
SeqMax(q) == IF Len(q) = 1 THEN q[1] ELSE RMax(q[1], SeqMax(Tail(q)))

\* Axes.set_yticks: the major locator becomes a FixedLocator of the ticks;
\* the radial limits are left alone or stretched to hold more than one tick
Axes_set_yticks_limits(vl, ticks, stretch) ==
  IF stretch /\ Len(ticks) > 1
  THEN [vl EXCEPT !.y0 = RMin(ymin(vl), SeqMin(ticks)),
                  !.y1 = RMax(ymax(vl), SeqMax(ticks))]
  ELSE vl

\* self._rpad * rmax in hundredths; the radial limits of these calls are whole
\* numbers
rpad_times(pad, rmax) == (pad * rmax[1]) \div rmax[2]

\* variant: the radii are checked after the ticks are set
set_rgrids_checks_late(radii, labels, angle, rpad, fmt, stretch) ==
  [fault |-> IF RLess(Zero, SeqMin(radii)) THEN "" ELSE "ValueError",
   vl    |-> viewLim,
   yaxis |-> [yaxis EXCEPT !.major_locator = FixedLocator(radii)],
   rpad  |-> _rpad,
   l1    |-> r_label1_position,
   l2    |-> r_label2_position]

\* set_rgrids: the fault of the call and the state it leaves
set_rgrids_effect(radii, labels, angle, rpad, fmt, stretch) ==
  IF ~RLess(Zero, SeqMin(radii))
  THEN [fault |-> "ValueError", vl |-> viewLim, yaxis |-> yaxis,
        rpad |-> _rpad, l1 |-> r_label1_position, l2 |-> r_label2_position]
  ELSE LET vl  == Axes_set_yticks_limits(viewLim, radii, stretch)
           y1  == [yaxis EXCEPT !.major_locator = FixedLocator(radii)]
           y2  == IF labels # None
                  THEN [y1 EXCEPT !.major_formatter = FixedFormatter(labels[1])]
                  ELSE IF fmt # None
                       THEN [y1 EXCEPT
                               !.major_formatter = FormatStrFormatter(fmt[1])]
                       ELSE y1
           a   == IF angle = None THEN r_label1_position.angle ELSE angle[1]
           pad == IF rpad # None THEN rpad[1] ELSE _rpad
           rmax == ymax(vl)
       IN  [fault |-> "", vl |-> vl, yaxis |-> y2, rpad |-> pad,
            l1 |-> [angle |-> a, pad |-> rpad_times(pad, rmax)],
            l2 |-> [angle |-> a, pad |-> -rpad_times(pad, rmax)]]

set_rgrids(radii, labels, angle, rpad, fmt, stretch) ==
  LET e == set_rgrids_effect(radii, labels, angle, rpad, fmt, stretch)
  IN  /\ viewLim' = e.vl
      /\ transProjectionAffine'
           = IF e.vl # viewLim THEN invalidated(transProjectionAffine)
             ELSE transProjectionAffine
      /\ yaxis' = e.yaxis
      /\ _rpad' = e.rpad
      /\ r_label1_position' = e.l1
      /\ r_label2_position' = e.l2
      /\ last' = [op |-> "set_rgrids", fault |-> e.fault, radii |-> radii,
                  angle |-> angle, rpad |-> rpad]
      /\ UNCHANGED <<pan_start, gesture, ngestures, xaxis,
                     theta_label1_position, theta_label2_position, cm_vars>>

\* set_thetagrids on the axis xa and the label positions l1, l2: the fault of
\* the call and the state it leaves
set_thetagrids_effect(xa, l1, l2, angles, labels, frac, fmt) ==
  LET x1 == [xa EXCEPT !.major_locator = FixedLocator(radians(angles))]
      x2 == IF labels # None
            THEN [x1 EXCEPT !.major_formatter = FixedFormatter(labels[1])]
            ELSE IF fmt # None
                 THEN [x1 EXCEPT
                         !.major_formatter = FormatStrFormatter(fmt[1])]
                 ELSE x1
  IN  IF frac = None
      THEN [fault |-> "", xaxis |-> x2, l1 |-> l1, l2 |-> l2]
      ELSE IF frac[1] = Zero
           \* translate(0.0, frac) is done, 1.0 / frac raises
           THEN [fault |-> "ZeroDivisionError", xaxis |-> x2,
                 l1 |-> [angle |-> 0, radius |-> frac[1]], l2 |-> l2]
           ELSE [fault |-> "", xaxis |-> x2,
                 l1 |-> [angle |-> 0, radius |-> frac[1]],
                 l2 |-> [angle |-> 0, radius |-> RDiv(<<1, 1>>, frac[1])]]

set_thetagrids(angles, labels, frac, fmt) ==
  LET e == set_thetagrids_effect(xaxis, theta_label1_position,
                                 theta_label2_position, angles, labels, frac,
                                 fmt)
  IN  /\ xaxis' = e.xaxis
      /\ theta_label1_position' = e.l1
      /\ theta_label2_position' = e.l2
      /\ last' = [op |-> "set_thetagrids", fault |-> e.fault, frac |-> frac]
      /\ UNCHANGED <<viewLim, transProjectionAffine, r_label1_position,
                     r_label2_position, pan_start, gesture, ngestures,
                     _rpad, yaxis, cm_vars>>

\* cla: Axes.cla clears both axis objects; then the ThetaFormatter, the
\* angular grid every 45 degrees and the wrapped radial locator
cla ==
  LET e == set_thetagrids_effect(
             [Axis_cla EXCEPT !.major_formatter = ThetaFormatter],
             theta_label1_position, theta_label2_position, cla_angles,
             None, None, None)
  IN  /\ xaxis' = e.xaxis
      /\ yaxis' = [Axis_cla EXCEPT !.major_locator = RadialLocator(@)]
      /\ last' = [op |-> "cla", fault |-> ""]
      /\ UNCHANGED <<viewLim, transProjectionAffine, r_label1_position,
                     r_label2_position, pan_start, gesture, ngestures,
                     _rpad, theta_label1_position, theta_label2_position,
                     cm_vars>>

set_yscale(scale) ==
  /\ yaxis' = [Axes_set_yscale(scale) EXCEPT
                 !.major_locator = RadialLocator(@)]
  /\ last' = [op |-> "set_yscale", fault |-> ""]
  /\ UNCHANGED <<viewLim, transProjectionAffine, r_label1_position,
                 r_label2_position, pan_start, gesture, ngestures,
                 _rpad, xaxis, theta_label1_position, theta_label2_position,
                 cm_vars>>

\* set_rscale = Axes.set_yscale
set_rscale(scale) ==
  /\ yaxis' = Axes_set_yscale(scale)
  /\ last' = [op |-> "set_rscale", fault |-> ""]
  /\ UNCHANGED <<viewLim, transProjectionAffine, r_label1_position,
                 r_label2_position, pan_start, gesture, ngestures,
                 _rpad, xaxis, theta_label1_position, theta_label2_position,
                 cm_vars>>

\* arguments of the calls
YScales    == {"linear", "log"}
RadiiArgs  == {<<<<1, 1>>, <<2, 1>>>>, <<Zero, <<1, 1>>>>,
               <<<<2, 1>>, <<-1, 1>>>>}
LabelArgs  == {None, <<"labels">>}
AngleArgs  == {None, <<180>>}
RpadArgs   == {None, <<10>>}
FmtArgs    == {None, <<"%d">>}
ThetaArgs  == {<<0, 90, 180, 270>>, <<0, 45>>}
FracArgs   == {None, <<Zero>>, <<<<2, 1>>>>, <<<<1, 2>>>>, <<<<11, 10>>>>}
\* radial limits of the axes the grids are set on
GridLimits == {[y0 |-> <<0, 1>>, y1 |-> <<1, 1>>],
               [y0 |-> <<3, 1>>, y1 |-> <<4, 1>>]}

InitGridCalls ==
  /\ viewLim \in GridLimits
  /\ transProjectionAffine = PolarAffine
  /\ r_label1_position = [angle |-> RLabelAngleInit, pad |-> RPadInit]
  /\ r_label2_position = [angle |-> RLabelAngleInit, pad |-> RPadInit]
  /\ pan_start = NoPan
  /\ gesture = "never"
  /\ ngestures = 0
  /\ last = [op |-> "init", fault |-> ""]
  /\ InitGrids
  /\ InitCm

\* the calls that set the radial grid
NextRadialGrid ==
  \/ cla
  \/ \E scale \in YScales : set_yscale(scale)
  \/ \E scale \in YScales : set_rscale(scale)
  \/ \E radii \in RadiiArgs, labels \in LabelArgs, angle \in AngleArgs,
        rpad \in RpadArgs, fmt \in FmtArgs, stretch \in BOOLEAN :
        set_rgrids(radii, labels, angle, rpad, fmt, stretch)

SpecRadialGrid == InitGridCalls /\ [][NextRadialGrid]_vars

\* the calls that set the angular grid
NextThetaGrid ==
  \/ cla
  \/ \E angles \in ThetaArgs, labels \in LabelArgs, frac \in FracArgs,
        fmt \in FmtArgs :
        set_thetagrids(angles, labels, frac, fmt)

SpecThetaGrid == InitGridCalls /\ [][NextThetaGrid]_vars

----------------------------------------------------------------------------
(* Claims about the grid calls *)

WellWrapped(locator) ==
  /\ locator.kind = "RadialLocator"
  /\ locator.base.kind # "RadialLocator"

\* C28 as stated: after each of cla, set_yscale and set_rscale the major
\* locator of the radial axis is a RadialLocator that wraps one locator which
\* is not a RadialLocator.
C28_LocatorAlwaysWrapped ==
  [][last'.op \in {"cla", "set_yscale", "set_rscale"}
       => WellWrapped(yaxis'.major_locator)]_vars

\* C29 as stated: after every set_thetagrids call, one that raises included,
\* the radius of the secondary angular label is the reciprocal of the radius
\* of the primary one, and a call that raises leaves both angular-label
\* positions and the angular ticks as they were.
C29_ThetaLabelsReciprocal ==
  [][last'.op = "set_thetagrids" =>
       /\ RMul(theta_label1_position'.radius,
               theta_label2_position'.radius) = <<1, 1>>
       /\ last'.fault # ""
            => UNCHANGED <<theta_label1_position, theta_label2_position,
                           xaxis>>]_vars

----------------------------------------------------------------------------
(* cm.py: register_cmap, get_cmap and the checkers of a ScalarMappable     *)

\* mpl.rcParams['image.cmap']
image_cmap == "jet"

\* the value a function returns when it ends without a return statement
NoValue == [none |-> TRUE]

\* a colormap object of the caller, and data of the caller
swirly_cmap == [name |-> "swirly", data |-> [user |-> "swirly"], N |-> LUTSIZE]
choppydata  == [user |-> "choppy"]

\* cmap_d[name] = cmap
cmap_d_set(name, cmap) ==
  [n \in DOMAIN cmap_d \cup {name} |-> IF n = name THEN cmap ELSE cmap_d[n]]

\* register_cmap: the fault of the call and the registry it leaves
register_cmap_effect(name, cmap, data, lut) ==
  IF name = None /\ cmap = None
  THEN [fault |-> "ValueError", cmap_d |-> cmap_d]
  ELSE LET n == IF name = None THEN cmap[1].name ELSE name[1]
       IN  IF cmap # None
           THEN [fault |-> "", cmap_d |-> cmap_d_set(n, cmap[1])]
           ELSE [fault  |-> "",
                 cmap_d |-> cmap_d_set(n, LinearSegmentedColormap(
                              n, data[1],
                              IF lut = None THEN LUTSIZE ELSE lut[1]))]

register_cmap(name, cmap, data, lut) ==
  LET e == register_cmap_effect(name, cmap, data, lut)
  IN  /\ cmap_d' = e.cmap_d
      /\ last' = [op |-> "register_cmap", fault |-> e.fault]
      /\ UNCHANGED <<viewLim, gesture_vars, grid_vars, update_dict, notified>>

\* get_cmap with a name (None or a string): the fault and the value returned
get_cmap_result(name, lut) ==
  LET n == IF name = None THEN image_cmap ELSE name[1]
  IN  IF n \in DOMAIN cmap_d
      THEN IF lut = None
           THEN [fault |-> "", out |-> cmap_d[n]]
           ELSE IF n \in DOMAIN datad
                THEN [fault |-> "",
                      out   |-> LinearSegmentedColormap(n, datad[n], lut[1])]
                ELSE [fault |-> "ValueError", out |-> NoValue]
      ELSE [fault |-> "", out |-> NoValue]

get_cmap(name, lut) ==
  LET e == get_cmap_result(name, lut)
  IN  /\ last' = [op |-> "get_cmap", fault |-> e.fault, name |-> name,
                  lut |-> lut, out |-> e.out]
      /\ UNCHANGED <<viewLim, gesture_vars, grid_vars, cm_vars>>

\* update_dict[checker] = False
add_checker(checker) ==
  /\ update_dict' = [c \in DOMAIN update_dict \cup {checker} |->
                       IF c = checker THEN FALSE ELSE update_dict[c]]
  /\ notified' = [notified EXCEPT ![checker] = NoCalls]
  /\ last' = [op |-> "add_checker", fault |-> "", checker |-> checker]
  /\ UNCHANGED <<viewLim, gesture_vars, grid_vars, cmap_d>>

check_update(checker) ==
  /\ IF checker \notin DOMAIN update_dict
     THEN /\ last' = [op |-> "check_update", fault |-> "KeyError",
                      checker |-> checker]
          /\ UNCHANGED <<update_dict, notified>>
     ELSE /\ last' = [op |-> "check_update", fault |-> "",
                      checker |-> checker, ret |-> update_dict[checker],
                      since |-> notified[checker]]
          /\ update_dict' = [update_dict EXCEPT ![checker] = FALSE]
          /\ notified' = [notified EXCEPT ![checker] = NoCalls]
  /\ UNCHANGED <<viewLim, gesture_vars, grid_vars, cmap_d>>

\* variant: changed() sets the flag of 'array' only
changed_flags_array_only(flags) ==
  [c \in DOMAIN flags |-> IF c = "array" THEN TRUE ELSE flags[c]]

\* every flag of update_dict becomes True
changed_flags(flags) == [c \in DOMAIN flags |-> TRUE]

\* changed(): the callbacks are outside the model
changed ==
  /\ update_dict' = changed_flags(update_dict)
  /\ notified' = [c \in Checkers |-> [notified[c] EXCEPT !.changed = TRUE]]
  /\ last' = [op |-> "changed", fault |-> ""]
  /\ UNCHANGED <<viewLim, gesture_vars, grid_vars, cmap_d>>

\* set_array(A): self._A = A; self.update_dict['array'] = True
set_array(A) ==
  /\ update_dict' = [update_dict EXCEPT !["array"] = TRUE]
  /\ notified' = [c \in Checkers |-> [notified[c] EXCEPT !.set_array = TRUE]]
  /\ last' = [op |-> "set_array", fault |-> ""]
  /\ UNCHANGED <<viewLim, gesture_vars, grid_vars, cmap_d>>

\* arguments of the calls
CmapNames    == {None, <<"jet">>, <<"swirly">>, <<"nosuch">>}
LutArgs      == {None, <<16>>}
\* register_cmap(name=..., cmap=...) and register_cmap(name=..., data=...,
\* lut=...), and a call with neither a name nor a colormap
RegisterArgs ==
  {[name |-> n, cmap |-> <<swirly_cmap>>, data |-> None, lut |-> None] :
     n \in {None, <<"jet">>}}
  \cup {[name |-> n, cmap |-> None, data |-> <<choppydata>>, lut |-> l] :
          n \in {<<"jet">>, <<"choppy">>}, l \in LutArgs}
  \cup {[name |-> None, cmap |-> None, data |-> <<choppydata>>, lut |-> None]}
Arrays       == {None, <<"A">>}

InitCmCalls ==
  /\ viewLim \in GridLimits
  /\ transProjectionAffine = PolarAffine
  /\ r_label1_position = [angle |-> RLabelAngleInit, pad |-> RPadInit]
  /\ r_label2_position = [angle |-> RLabelAngleInit, pad |-> RPadInit]
  /\ pan_start = NoPan
  /\ gesture = "never"
  /\ ngestures = 0
  /\ last = [op |-> "init", fault |-> ""]
  /\ InitGrids
  /\ InitCm

NextCm ==
  \/ \E a \in RegisterArgs : register_cmap(a.name, a.cmap, a.data, a.lut)
  \/ \E name \in CmapNames, lut \in LutArgs : get_cmap(name, lut)
  \/ \E c \in Checkers : add_checker(c)
  \/ \E c \in Checkers : check_update(c)
  \/ changed
  \/ \E A \in Arrays : set_array(A)

SpecCm == InitCmCalls /\ [][NextCm]_vars

----------------------------------------------------------------------------
(* Claims about cm.py *)

\* C24 as stated: for a name under which register_cmap has stored a colormap
\* of the caller, get_cmap returns, for lut None and for an integer lut, a
\* colormap with the data of the registered one, not with the built-in data
\* of that name; and for a name that is not registered get_cmap raises and
\* does not return without a colormap.
C24_RegisteredTakesPrecedence ==
  last.op = "get_cmap" =>
    LET n == IF last.name = None THEN image_cmap ELSE last.name[1]
    IN  /\ (/\ n \in DOMAIN cmap_d
            /\ "user" \in DOMAIN cmap_d[n].data
            /\ last.fault = "")
             => /\ last.out # NoValue
                /\ last.out.data = cmap_d[n].data
        /\ n \notin DOMAIN cmap_d => last.fault # ""

\* C30 as stated: check_update(c) returns True exactly when changed() was
\* called since the later of add_checker(c) and the previous check_update(c);
\* it clears the flag of c, so a second check_update(c) returns False, and
\* leaves the flag of every other checker alone; add_checker(c) on an existing
\* checker clears its flag.
C30_CheckUpdateTracksChanged ==
  [][/\ (last'.op = "check_update" /\ last'.fault = "")
          => /\ last'.ret = notified[last'.checker].changed
             /\ update_dict'[last'.checker] = FALSE
             /\ \A d \in DOMAIN update_dict \ {last'.checker} :
                  update_dict'[d] = update_dict[d]
     /\ last'.op = "add_checker"
          => /\ update_dict'[last'.checker] = FALSE
             /\ \A d \in DOMAIN update_dict \ {last'.checker} :
                  update_dict'[d] = update_dict[d]]_vars

\* C30: check_update(c) returns True exactly when, since the later of
\* add_checker(c) and the previous check_update(c), changed() was called or,
\* for the checker 'array' only, set_array() was called; it clears the flag of
\* c and leaves the flag of every other checker alone; add_checker(c) on an
\* existing checker clears its flag and no other.
C30_CheckUpdateTracksChangedOrArray ==
  [][/\ (last'.op = "check_update" /\ last'.fault = "")
          => /\ last'.ret
                  = (\/ notified[last'.checker].changed
                     \/ /\ last'.checker = "array"
                        /\ notified[last'.checker].set_array)
             /\ update_dict'[last'.checker] = FALSE
             /\ \A d \in DOMAIN update_dict \ {last'.checker} :
                  update_dict'[d] = update_dict[d]
     /\ last'.op = "add_checker"
          => /\ update_dict'[last'.checker] = FALSE
             /\ \A d \in DOMAIN update_dict \ {last'.checker} :
                  update_dict'[d] = update_dict[d]]_vars

\* check_update('array') has returned True after set_array() alone, while the
\* flag of another checker, pending from changed(), is still set
C30_Witness ==
  /\ last.op = "check_update"
  /\ last.checker = "array"
  /\ last.ret = TRUE
  /\ last.since = [changed |-> FALSE, set_array |-> TRUE]
  /\ "c1" \in DOMAIN update_dict
  /\ update_dict["c1"] = TRUE
  /\ notified["c1"].changed

====
